---------------------------- MODULE Spec2Model ----------------------------
(***************************************************************************)
(* Model of the CrUX analyzer backend: the analyze-url request handler     *)
(* (views.analyze_url), the URL list serializer (serializers.py) and the   *)
(* CrUX service (crux_service.py).                                         *)
(*                                                                         *)
(* Strings that the code inspects character by character (the raw URL      *)
(* entries) are sequences of one-character strings.  JSON values coming    *)
(* from the upstream API are tagged records (Null, Num, Str, Obj, Arr).    *)
(* Python exceptions are results [ok |-> FALSE, exc |-> <class name>].     *)
(***************************************************************************)
EXTENDS Integers, Sequences, FiniteSets, TLC

VARIABLES
    apiKey,       \* settings.CRUX_API_KEY
    requestUrls,  \* request.data['urls'], the raw list of the request
    pc,           \* position of the handler analyze_url
    fieldValues,  \* per raw entry, the string FlexibleURLField hands to its parent
    urls,         \* serializer.validated_data['urls']
    calls,        \* the URLs of the upstream calls made so far, in order
    received,     \* what each of those calls returned or raised, in order
    idx,          \* position of the loop of analyze_urls (1-based)
    results,      \* analyze_urls: results
    errors,       \* analyze_urls: errors
    summaryAt,    \* number of outcomes recorded when _generate_summary ran (-1: not run)
    response      \* the Response returned by the view ([status |-> 0]: none yet)

vars == <<apiKey, requestUrls, pc, fieldValues, urls, calls, received, idx,
          results, errors, summaryAt, response>>

-----------------------------------------------------------------------------
(* Bounds of the model *)

\* longest raw list submitted (the ceiling of the serializer is MaxUrls)
MaxRawLen == 22
\* longest raw list whose entries are drawn freely from RawEntries
MaxShort == 2
\* most distinct URLs in a raw list that passes validation
MaxDistinct == 3

(* Program constants *)

\* ListField(max_length=20)
MaxUrls == 20
\* ListField(min_length=1)
MinUrls == 1

-----------------------------------------------------------------------------
(* Character strings *)

Letters == <<"a", "b", "c", "d", "e", "f", "g", "h", "i", "j", "k", "l", "m",
             "n", "o", "p", "q", "r", "s", "t", "u", "v", "w", "x", "y", "z">>

SchemeHttp == <<"h", "t", "t", "p", ":", "/", "/">>
SchemeHttps == <<"h", "t", "t", "p", "s", ":", "/", "/">>
Whitespace == {" "}

\* str.lower on one character (the upper-case letters the model uses)
LowerChar(c) ==
    CASE c = "H" -> "h"
      [] c = "T" -> "t"
      [] c = "P" -> "p"
      [] c = "S" -> "s"
      [] OTHER -> c

Lower(s) == [i \in 1..Len(s) |-> LowerChar(s[i])]

\* str.startswith
StartsWith(s, p) == Len(s) >= Len(p) /\ SubSeq(s, 1, Len(p)) = p

RECURSIVE LStrip(_)
LStrip(s) == IF s # <<>> /\ Head(s) \in Whitespace THEN LStrip(Tail(s)) ELSE s

RECURSIVE RStrip(_)
RStrip(s) ==
    IF s # <<>> /\ s[Len(s)] \in Whitespace
    THEN RStrip(SubSeq(s, 1, Len(s) - 1))
    ELSE s

\* str.strip
Strip(s) == RStrip(LStrip(s))

\* re.match(r'^https?://', url, re.IGNORECASE)
MatchesScheme(url) ==
    StartsWith(Lower(url), SchemeHttp) \/ StartsWith(Lower(url), SchemeHttps)

-----------------------------------------------------------------------------
(* serializers.py *)

\* FlexibleURLField.to_internal_value, lines 21-29: the protocol-corrected URL
ProtocolCorrectedNoStrip(data) ==
    IF ~MatchesScheme(data)
    THEN IF StartsWith(data, <<"/", "/">>)
         THEN <<"h", "t", "t", "p", "s", ":">> \o data
         ELSE SchemeHttps \o data
    ELSE data

ProtocolCorrected(data) ==
    LET url == Strip(data)
    IN  IF ~MatchesScheme(url)
        THEN IF StartsWith(url, <<"/", "/">>)
             THEN <<"h", "t", "t", "p", "s", ":">> \o url
             ELSE SchemeHttps \o url
        ELSE url

\* The parent URLField's check of the protocol-corrected URL (line 32): an http
\* or https scheme, compared in lower case, and a dotted host without
\* whitespace or slashes.
URLFieldAccepts(url) ==
    /\ MatchesScheme(url)
    /\ LET host == IF StartsWith(Lower(url), SchemeHttps)
                   THEN SubSeq(url, Len(SchemeHttps) + 1, Len(url))
                   ELSE SubSeq(url, Len(SchemeHttp) + 1, Len(url))
       IN  /\ Len(host) >= 3
           /\ \A i \in 1..Len(host) : host[i] \notin Whitespace \cup {"/", ":"}
           /\ \E i \in 2..(Len(host) - 1) : host[i] = "."
           /\ host[1] # "." /\ host[Len(host)] # "."

\* FlexibleURLField.to_internal_value
to_internal_value(data) ==
    IF data = <<>>
    THEN [ok |-> TRUE, value |-> data]
    ELSE LET url == ProtocolCorrected(data)
         IN  IF URLFieldAccepts(url)
             THEN [ok |-> TRUE, value |-> url]
             ELSE [ok |-> FALSE, value |-> url]

\* The field's run_validation for one entry of the list: a blank entry fails
\* before to_internal_value is called (allow_blank is not set).
IsBlank(data) == Strip(data) = <<>>

RunChildValidation(data) ==
    IF IsBlank(data)
    THEN [ok |-> FALSE, called |-> FALSE, value |-> data]
    ELSE LET r == to_internal_value(data)
         IN  [ok |-> r.ok, called |-> TRUE, value |-> r.value]

\* URLListSerializer.validate_urls: the loop over value with seen / unique_urls
RECURSIVE DedupKeepLast(_)
DedupKeepLast(value) ==
    IF value = <<>> THEN <<>>
    ELSE IF \E j \in 2..Len(value) : value[j] = Head(value)
         THEN DedupKeepLast(Tail(value))
         ELSE <<Head(value)>> \o DedupKeepLast(Tail(value))

validate_urls_keep_last(value) == DedupKeepLast(value)

RECURSIVE UniqueLoop(_, _, _)
UniqueLoop(value, seen, unique_urls) ==
    IF value = <<>> THEN unique_urls
    ELSE LET url == Head(value)
         IN  IF url \notin seen
             THEN UniqueLoop(Tail(value), seen \cup {url}, Append(unique_urls, url))
             ELSE UniqueLoop(Tail(value), seen, unique_urls)

validate_urls(value) == UniqueLoop(value, {}, <<>>)

\* The urls ListField (child, min_length, max_length): the children are
\* validated first, then the length of the list of their values is checked.
LengthAccepted(n) == MinUrls <= n /\ n <= MaxUrls

\* serializer.is_valid() for the raw list: the list field, then validate_urls
SerializerValidateDedupFirst(raw) ==
    LET child == [i \in 1..Len(raw) |-> RunChildValidation(raw[i])]
        values == [i \in 1..Len(raw) |-> child[i].value]
        ok == (\A i \in 1..Len(raw) : child[i].ok)
              /\ LengthAccepted(Len(validate_urls(values)))
    IN  [ok |-> ok,
         child |-> child,
         urls |-> IF ok THEN validate_urls(values) ELSE <<>>]

SerializerValidate(raw) ==
    LET child == [i \in 1..Len(raw) |-> RunChildValidation(raw[i])]
        values == [i \in 1..Len(raw) |-> child[i].value]
        ok == (\A i \in 1..Len(raw) : child[i].ok) /\ LengthAccepted(Len(raw))
    IN  [ok |-> ok,
         child |-> child,
         urls |-> IF ok THEN validate_urls(values) ELSE <<>>]

-----------------------------------------------------------------------------
(* JSON values of the upstream response, and Python's operations on them *)

Null == [t |-> "null"]
Num(n) == [t |-> "num", v |-> n]
Str(s) == [t |-> "str", v |-> s]
Arr(s) == [t |-> "arr", v |-> s]
Obj(f) == [t |-> "obj", v |-> f]
EmptyObj == Obj([k \in {} |-> Null])
EmptyArr == Arr(<<>>)

\* bool(x): None, 0, "", [] and {} are false
Truthy(x) ==
    CASE x.t = "null" -> FALSE
      [] x.t = "num" -> x.v # 0
      [] x.t = "str" -> x.v # <<>>
      [] x.t = "arr" -> x.v # <<>>
      [] x.t = "obj" -> DOMAIN x.v # {}

Raise(exc) == [ok |-> FALSE, exc |-> exc]
Return(val) == [ok |-> TRUE, val |-> val]

\* x.get(key, default): only a dict has .get
PyGet(x, key, default) ==
    IF x.t # "obj" THEN Raise("AttributeError")
    ELSE IF key \in DOMAIN x.v THEN Return(x.v[key]) ELSE Return(default)

Digits == <<"0", "1", "2", "3", "4", "5", "6", "7", "8", "9">>
IsDigit(c) == \E d \in 1..Len(Digits) : Digits[d] = c
DigitValue(c) == (CHOOSE d \in 1..Len(Digits) : Digits[d] = c) - 1

RECURSIVE ParseDigits(_, _)
ParseDigits(s, acc) ==
    IF s = <<>> THEN acc ELSE ParseDigits(Tail(s), 10 * acc + DigitValue(Head(s)))

\* float(x) for a non-None p75 value.  A float is held as an integer number of
\* hundredths, so that round(_, 2) is exact.
PyFloat(x) ==
    CASE x.t = "num" -> Return(100 * x.v)
      [] x.t = "str" ->
            IF x.v # <<>> /\ \A i \in 1..Len(x.v) : IsDigit(x.v[i])
            THEN Return(100 * ParseDigits(x.v, 0))
            ELSE Raise("ValueError")
      [] OTHER -> Raise("TypeError")

\* round(total / n, 2) in hundredths, for total >= 0 in hundredths: the nearest
\* integer to total / n, a tie going to the even one
Round2(total, n) ==
    LET q == total \div n
        r == total % n
    IN  IF 2 * r < n THEN q
        ELSE IF 2 * r > n THEN q + 1
        ELSE IF q % 2 = 0 THEN q ELSE q + 1

-----------------------------------------------------------------------------
(* crux_service.py *)

Metrics == <<"lcp", "cls", "fcp">>

\* _parse_crux_response: the upstream key of each metric
UpstreamKey(metric) ==
    CASE metric = "lcp" -> "largest_contentful_paint"
      [] metric = "cls" -> "cumulative_layout_shift"
      [] metric = "fcp" -> "first_contentful_paint"

Unavailable == [p75 |-> Null, p90 |-> Null, p99 |-> Null, status |-> "unavailable"]

\* _parse_metric testing the metric alone, not its percentiles
_parse_metric_metric_only(metric) ==
    IF ~Truthy(metric) THEN Return(Unavailable)
    ELSE LET pct == PyGet(metric, "percentiles", EmptyObj)
         IN  IF ~pct.ok THEN pct
             ELSE LET p75 == PyGet(pct.val, "p75", Null)
                      p90 == PyGet(pct.val, "p90", Null)
                      p99 == PyGet(pct.val, "p99", Null)
                      dist == PyGet(metric, "distribution", EmptyArr)
                  IN  IF ~p75.ok THEN p75
                      ELSE Return([p75 |-> p75.val,
                                   p90 |-> p90.val,
                                   p99 |-> p99.val,
                                   distribution |-> dist.val,
                                   status |-> "available"])

\* CrUXService._parse_metric; metric is Null for Python's None
_parse_metric(metric) ==
    IF ~Truthy(metric) THEN Return(Unavailable)
    ELSE LET pct == PyGet(metric, "percentiles", Null)
         IN  IF ~pct.ok THEN pct
             ELSE IF ~Truthy(pct.val) THEN Return(Unavailable)
             ELSE LET p75 == PyGet(pct.val, "p75", Null)
                      p90 == PyGet(pct.val, "p90", Null)
                      p99 == PyGet(pct.val, "p99", Null)
                      dist == PyGet(metric, "distribution", EmptyArr)
                  IN  IF ~p75.ok THEN p75
                      ELSE Return([p75 |-> p75.val,
                                   p90 |-> p90.val,
                                   p99 |-> p99.val,
                                   distribution |-> dist.val,
                                   status |-> "available"])

\* CrUXService._parse_crux_response (fetchTime, a clock reading, is left out)
_parse_crux_response(data, url) ==
    LET record == PyGet(data, "record", EmptyObj)
    IN  IF ~record.ok THEN record
        ELSE LET metrics == PyGet(record.val, "metrics", EmptyObj)
                 period == PyGet(record.val, "collectionPeriod", EmptyObj)
             IN  IF ~metrics.ok THEN metrics
                 ELSE LET raw == [m \in {"lcp", "cls", "fcp"} |->
                                     PyGet(metrics.val, UpstreamKey(m), Null)]
                      IN  IF \E m \in DOMAIN raw : ~raw[m].ok
                          THEN Raise("AttributeError")
                          ELSE LET parsed == [m \in DOMAIN raw |-> _parse_metric(raw[m].val)]
                               IN  IF \E m \in DOMAIN parsed : ~parsed[m].ok
                                   THEN Raise("AttributeError")
                                   ELSE Return([url |-> url,
                                                metrics |-> [m \in DOMAIN parsed |-> parsed[m].val],
                                                collectionPeriod |-> period.val])

\* CrUXService.fetch_crux_data with the outcome of _make_api_request: a
\* requests.RequestException (connection error, timeout, non-2xx status,
\* undecodable body) or the decoded JSON body
fetch_crux_data(url, upstream) ==
    IF upstream.kind = "RequestException"
    THEN Raise("CrUXAPIError")
    ELSE _parse_crux_response(upstream.data, url)

\* _generate_summary, lines 149-154: the p75 values of one metric as floats
RECURSIVE CollectValues(_, _, _)
CollectValues(rs, metric, values) ==
    IF rs = <<>> THEN Return(values)
    ELSE LET p75_value == Head(rs).metrics[metric].p75
         IN  IF p75_value # Null
             THEN LET f == PyFloat(p75_value)
                  IN  IF f.ok
                      THEN CollectValues(Tail(rs), metric, Append(values, f.val))
                      ELSE f
             ELSE CollectValues(Tail(rs), metric, values)

\* sum(values)
RECURSIVE PySum(_)
PySum(values) == IF values = <<>> THEN 0 ELSE PySum(SubSeq(values, 1, Len(values) - 1)) + values[Len(values)]

\* min(values) and max(values), values not empty
PyMinFirst(values) == values[1]

RECURSIVE PyMin(_)
PyMin(values) ==
    IF Len(values) = 1 THEN values[1]
    ELSE LET m == PyMin(SubSeq(values, 1, Len(values) - 1))
         IN  IF values[Len(values)] < m THEN values[Len(values)] ELSE m

RECURSIVE PyMax(_)
PyMax(values) ==
    IF Len(values) = 1 THEN values[1]
    ELSE LET m == PyMax(SubSeq(values, 1, Len(values) - 1))
         IN  IF values[Len(values)] > m THEN values[Len(values)] ELSE m

\* _generate_summary, lines 156-169: the statistics of one metric
MetricStatsTruncated(values) ==
    IF values # <<>>
    THEN [avg |-> PySum(values) \div Len(values),
          min |-> PyMin(values),
          max |-> PyMax(values),
          count |-> Len(values)]
    ELSE [avg |-> 0, min |-> 0, max |-> 0, count |-> 0]

MetricStats(values) ==
    IF values # <<>>
    THEN [avg |-> Round2(PySum(values), Len(values)),
          min |-> PyMin(values),
          max |-> PyMax(values),
          count |-> Len(values)]
    ELSE [avg |-> 0, min |-> 0, max |-> 0, count |-> 0]

\* CrUXService._generate_summary: the metrics in order, the first exception of
\* float() ending the call
_generate_summary(rs) ==
    LET collected == [m \in {"lcp", "cls", "fcp"} |-> CollectValues(rs, m, <<>>)]
    IN  IF \E i \in 1..Len(Metrics) : ~collected[Metrics[i]].ok
        THEN collected[Metrics[CHOOSE i \in 1..Len(Metrics) :
                                   /\ ~collected[Metrics[i]].ok
                                   /\ \A j \in 1..(i - 1) : collected[Metrics[j]].ok]]
        ELSE Return([m \in {"lcp", "cls", "fcp"} |-> MetricStats(collected[m].val)])

\* CrUXService.__init__: "if not self.api_key" raises CrUXAPIError
NoneKey == "<None>"
KeyConfiguredUnlessNone(key) == key # NoneKey

KeyConfigured(key) == key \notin {NoneKey, ""}

-----------------------------------------------------------------------------
(* The upstream API *)

Dist == Arr(<<Obj([start |-> Num(0), density |-> Num(1)])>>)
Period == Obj([firstDate |-> Num(1), lastDate |-> Num(28)])

Pct(p) == Obj([percentiles |-> p])
PctDist(p) == Obj([percentiles |-> p, distribution |-> Dist])

\* a response body in the documented shape; Absent leaves the metric out
Absent == [t |-> "absent"]
Body(lcp, cls, fcp) ==
    LET given == [m \in {"lcp", "cls", "fcp"} |->
                     CASE m = "lcp" -> lcp [] m = "cls" -> cls [] m = "fcp" -> fcp]
        keys == {UpstreamKey(m) : m \in {n \in {"lcp", "cls", "fcp"} : given[n] # Absent}}
        metricOf(k) == CHOOSE m \in {"lcp", "cls", "fcp"} : UpstreamKey(m) = k
    IN  Obj([record |-> Obj([metrics |-> Obj([k \in keys |-> given[metricOf(k)]]),
                             collectionPeriod |-> Period])])

\* the p75 values the upstream reports for the load time
P75Values == {1000, 2000, 3000}

\* all three metrics present: percentiles p75/p90/p99 with a distribution, a
\* p75 sent as a string of digits, a p75 alone
FullBody(v) ==
    Body(PctDist(Obj([p75 |-> Num(v), p90 |-> Num(v + 500), p99 |-> Num(v + 900)])),
         Pct(Obj([p75 |-> Str(<<"1", "0">>)])),
         Pct(Obj([p75 |-> Num(v - 200)])))

Bodies ==
    {FullBody(v) : v \in P75Values}
    \cup { EmptyObj,
           \* percentiles missing beside other fields, metric missing, metric empty
           Body(Obj([distribution |-> Dist]), Absent, EmptyObj),
           \* percentiles empty, percentiles null
           Body(PctDist(EmptyObj), Pct(Null), Pct(Obj([p75 |-> Num(1800)]))),
           \* percentiles without p75
           Body(Pct(Obj([p90 |-> Num(4000)])), Absent, Absent),
           \* a p75 that is no number
           Body(Pct(Obj([p75 |-> Str(<<"n", "/", "a">>)])), Absent, Absent),
           \* a body that is not of the documented shape
           Obj([record |-> Null]) }

UpstreamOutcomes ==
    {[kind |-> "RequestException"]} \cup {[kind |-> "json", data |-> b] : b \in Bodies}

-----------------------------------------------------------------------------
(* Requests *)

Host(i) == <<Letters[i], ".", "i", "o">>

\* raw entries of the short lists: a bare host, every prefix form, padding, an
\* upper-case scheme, a malformed entry and a blank one
RawEntries ==
    { Host(1),
      <<"/", "/">> \o Host(1),
      SchemeHttps \o Host(1),
      <<" ">> \o Host(1) \o <<" ">>,
      SchemeHttp \o Host(2),
      <<"H", "T", "T", "P", ":", "/", "/">> \o Host(2),
      <<"a", " ", "b">>,
      <<" ">> }

RECURSIVE SeqsUpTo(_, _)
SeqsUpTo(S, n) ==
    IF n = 0 THEN {<<>>}
    ELSE LET shorter == SeqsUpTo(S, n - 1)
         IN  shorter \cup {Append(s, e) : s \in {t \in shorter : Len(t) = n - 1}, e \in S}

\* n entries over k hosts: the first k bare, the later ones with the scheme
\* written out, so that a repetition shows only after normalization
Cyclic(n, k) ==
    [i \in 1..n |-> IF i <= k THEN Host(i) ELSE SchemeHttps \o Host(((i - 1) % k) + 1)]

\* the short lists; lists of every length over fewer than MaxDistinct hosts;
\* lists over MaxDistinct hosts, the shortest ones and those at the ceiling;
\* lists of distinct hosts above the ceiling
RequestLists ==
    SeqsUpTo(RawEntries, MaxShort)
    \cup {Cyclic(n, k) : n \in 0..MaxRawLen, k \in 1..(MaxDistinct - 1)}
    \cup {Cyclic(n, MaxDistinct) :
              n \in {MaxDistinct, MaxDistinct + 1, MaxUrls, MaxUrls + 1}}
    \cup {Cyclic(n, n) : n \in (MaxUrls + 1)..MaxRawLen}

\* settings.CRUX_API_KEY = os.getenv('CRUX_API_KEY'): unset, empty or set
ApiKeys == {NoneKey, "", "key"}

NoResponse == [status |-> 0]

-----------------------------------------------------------------------------
(* views.analyze_url *)

Init ==
    /\ apiKey \in ApiKeys
    /\ requestUrls \in RequestLists
    /\ pc = "validate"
    /\ fieldValues = <<>>
    /\ urls = <<>>
    /\ calls = <<>>
    /\ received = <<>>
    /\ idx = 0
    /\ results = <<>>
    /\ errors = <<>>
    /\ summaryAt = -1
    /\ response = NoResponse

\* the handler with CrUXService() built before the input is validated
ValidateInputKeyFirst ==
    /\ pc = "validate"
    /\ LET v == SerializerValidate(requestUrls)
       IN  /\ fieldValues' = v.child
           /\ IF ~KeyConfigured(apiKey)
              THEN /\ urls' = urls
                   /\ pc' = "done"
                   /\ response' = [status |-> 503, error |-> "CrUX API error",
                                   message |-> "CrUX API key not configured"]
              ELSE IF v.ok
              THEN /\ urls' = v.urls
                   /\ pc' = "construct"
                   /\ response' = response
              ELSE /\ urls' = urls
                   /\ pc' = "done"
                   /\ response' = [status |-> 400, error |-> "Invalid input"]
    /\ UNCHANGED <<apiKey, requestUrls, calls, received, idx, results, errors, summaryAt>>

\* views.py lines 33-40: serializer.is_valid(), the 400 response, validated_data
ValidateInput ==
    /\ pc = "validate"
    /\ LET v == SerializerValidate(requestUrls)
       IN  /\ fieldValues' = v.child
           /\ IF v.ok
              THEN /\ urls' = v.urls
                   /\ pc' = "construct"
                   /\ response' = response
              ELSE /\ urls' = urls
                   /\ pc' = "done"
                   /\ response' = [status |-> 400, error |-> "Invalid input"]
    /\ UNCHANGED <<apiKey, requestUrls, calls, received, idx, results, errors, summaryAt>>

\* views.py lines 44 and 50-55: CrUXService() and the 503 response
ConstructService ==
    /\ pc = "construct"
    /\ IF KeyConfigured(apiKey)
       THEN /\ pc' = "loop"
            /\ idx' = 1
            /\ response' = response
       ELSE /\ pc' = "done"
            /\ idx' = idx
            /\ response' = [status |-> 503, error |-> "CrUX API error",
                            message |-> "CrUX API key not configured"]
    /\ UNCHANGED <<apiKey, requestUrls, fieldValues, urls, calls, received, results,
                   errors, summaryAt>>

\* analyze_urls, lines 53-55: the next URL of the loop is sent upstream
CallUpstream ==
    /\ pc = "loop"
    /\ idx <= Len(urls)
    /\ calls' = Append(calls, urls[idx])
    /\ pc' = "waiting"
    /\ UNCHANGED <<apiKey, requestUrls, fieldValues, urls, received, idx, results,
                   errors, summaryAt, response>>

\* the loop's position after an outcome was recorded
NextIndexRetry(i, ok) == IF ok THEN i + 1 ELSE i

NextIndex(i, ok) == i + 1

\* analyze_urls, lines 55-63: the call returns or raises, and the outcome of
\* the URL is appended to results or to errors
RecordOutcome ==
    /\ pc = "waiting"
    /\ \E upstream \in UpstreamOutcomes :
          LET url == urls[idx]
              r == fetch_crux_data(url, upstream)
          IN  /\ IF r.ok
                 THEN /\ results' = Append(results, r.val)
                      /\ errors' = errors
                 ELSE /\ results' = results
                      /\ errors' =
                            Append(errors,
                                   [url |-> url,
                                    error |-> IF r.exc = "CrUXAPIError"
                                              THEN <<"Failed to fetch CrUX data: ", "RequestException">>
                                              ELSE <<"Unexpected error: ", r.exc>>])
              /\ idx' = NextIndex(idx, r.ok)
              /\ received' = Append(received, upstream)
    /\ pc' = "loop"
    /\ UNCHANGED <<apiKey, requestUrls, fieldValues, urls, calls, summaryAt, response>>

\* analyze_urls, lines 66-75, and the view's 200 response, or its 500 response
\* when _generate_summary raises (timestamp, a clock reading, is left out)
Respond ==
    /\ pc = "loop"
    /\ idx > Len(urls)
    /\ LET summary == _generate_summary(results)
       IN  response' =
              IF summary.ok
              THEN [status |-> 200,
                    results |-> results,
                    summary |-> summary.val,
                    errors |-> errors,
                    totalUrls |-> Len(urls),
                    successCount |-> Len(results)]
              ELSE [status |-> 500, error |-> "Internal server error"]
    /\ summaryAt' = Len(results) + Len(errors)
    /\ pc' = "done"
    /\ UNCHANGED <<apiKey, requestUrls, fieldValues, urls, calls, received, idx, results,
                   errors>>

Next ==
    \/ ValidateInput
    \/ ConstructService
    \/ CallUpstream
    \/ RecordOutcome
    \/ Respond

Spec == Init /\ [][Next]_vars

-----------------------------------------------------------------------------
(* Properties *)

Range(s) == {s[i] : i \in 1..Len(s)}
NoRepeats(s) == \A i, j \in 1..Len(s) : s[i] = s[j] => i = j
FirstIndex(s, x) == CHOOSE i \in 1..Len(s) : s[i] = x /\ \A j \in 1..(i - 1) : s[j] # x
SetMin(S) == CHOOSE x \in S : \A y \in S : x <= y
SetMax(S) == CHOOSE x \in S : \A y \in S : x >= y

\* the request passed validation and the handler went on
Validated == pc # "validate" /\ response.status # 400
\* serializer.is_valid() has just returned: the handler is about to build the
\* service, or has answered 400
JustValidated == pc = "construct" \/ (pc = "done" /\ response.status = 400)
\* the raw list fails validation: an entry is rejected or the length is out of range
InputInvalid ==
    \/ \E i \in 1..Len(fieldValues) : ~fieldValues[i].ok
    \/ Len(requestUrls) < 1
    \/ Len(requestUrls) > 20
CredentialAbsent == apiKey = NoneKey \/ apiKey = ""
\* the URLs of the entries of results, and of errors
ResultUrls == [i \in 1..Len(results) |-> results[i].url]
ErrorUrls == [i \in 1..Len(errors) |-> errors[i].url]
\* s holds elements of urls in the order of urls
InSubmissionOrder(s) ==
    \A i, j \in 1..Len(s) : i < j => FirstIndex(urls, s[i]) < FirstIndex(urls, s[j])

\* C1: with a configured credential, every validated request ends with a 200
\* response carrying a BatchReport in which each submitted URL is in exactly
\* one of results and errors, totalUrls is the length of the validated list,
\* successCount is the number of results and successCount plus the number of
\* errors is totalUrls, whatever each upstream call returned or raised.
C1_BatchAlwaysReported ==
    (pc = "done" /\ Validated /\ ~CredentialAbsent) =>
        /\ response.status = 200
        /\ \A u \in Range(urls) : (u \in Range(ResultUrls)) # (u \in Range(ErrorUrls))
        /\ NoRepeats(ResultUrls) /\ NoRepeats(ErrorUrls)
        /\ response.totalUrls = Len(urls)
        /\ response.successCount = Len(response.results)
        /\ response.successCount + Len(response.errors) = response.totalUrls

\* C2: a raw list of 0 entries or of more than 20 entries is answered with 400
\* and no upstream call, the ceiling applying to the raw list whatever it
\* would deduplicate to; every list handed to analyze_urls has 1 to 20 entries.
C2_CeilingBeforeDedup ==
    pc # "validate" =>
        /\ (Len(requestUrls) = 0 \/ Len(requestUrls) > 20) =>
               (response.status = 400 /\ calls = <<>> /\ pc = "done")
        /\ (pc \in {"loop", "waiting"} \/ response.status \in {200, 500}) =>
               (1 <= Len(urls) /\ Len(urls) <= 20)

\* a raw list of 21 valid entries that would deduplicate to fewer was rejected
C2_Witness ==
    /\ pc = "done"
    /\ response.status = 400
    /\ Len(requestUrls) = 21
    /\ \A i \in 1..Len(fieldValues) : fieldValues[i].ok
    /\ Cardinality({fieldValues[i].value : i \in 1..Len(fieldValues)}) <= 3

\* C3: the list validate_urls returns has no repeated element, is no longer than the raw
\* list, holds exactly the distinct normalized values of the raw entries, in
\* the order of their first occurrence; ["a.io", "a.io"] gives ["https://a.io"].
C3_DedupFirstOccurrence ==
    pc = "construct" =>
        LET normalized == [i \in 1..Len(fieldValues) |-> fieldValues[i].value]
        IN  /\ NoRepeats(urls)
            /\ Len(urls) <= Len(requestUrls)
            /\ Range(urls) = Range(normalized)
            /\ \A i, j \in 1..Len(urls) :
                  i < j => FirstIndex(normalized, urls[i]) < FirstIndex(normalized, urls[j])
            /\ requestUrls = <<Host(1), Host(1)>> => urls = <<SchemeHttps \o Host(1)>>

\* a raw list whose repetition shows only after normalization was deduplicated
C3_Witness ==
    /\ Validated
    /\ requestUrls = Cyclic(4, 3)
    /\ urls = <<SchemeHttps \o Host(1), SchemeHttps \o Host(2), SchemeHttps \o Host(3)>>

\* C5: with the credential absent, a request that passes validation is answered
\* with 503, no upstream call is made and no BatchReport is produced.
C5_NoCredentialIs503 ==
    (CredentialAbsent /\ Validated) =>
        /\ calls = <<>> /\ received = <<>>
        /\ results = <<>> /\ errors = <<>> /\ summaryAt = -1
        /\ pc \in {"construct", "done"}
        /\ pc = "done" => response.status = 503

\* a validated batch of several URLs was answered 503 for an empty credential
C5_Witness ==
    /\ apiKey = ""
    /\ pc = "done"
    /\ response.status = 503
    /\ Len(urls) >= 2

\* C9: the i-th upstream call is for the i-th URL, one call per URL; a call
\* starts only when the outcome of every earlier URL is recorded; results and
\* errors keep the submission order; the summary is computed once the outcome
\* of the last URL is recorded, after exactly Len(urls) calls.
C9_SequentialSingleAttempt ==
    /\ Len(calls) <= Len(urls)
    /\ calls = SubSeq(urls, 1, Len(calls))
    /\ Len(received) = Len(results) + Len(errors)
    /\ Len(calls) - Len(received) = (IF pc = "waiting" THEN 1 ELSE 0)
    /\ InSubmissionOrder(ResultUrls)
    /\ InSubmissionOrder(ErrorUrls)
    /\ Range(ResultUrls) \cup Range(ErrorUrls) = Range(SubSeq(urls, 1, Len(received)))
    /\ summaryAt # -1 => (summaryAt = Len(urls) /\ calls = urls)
    /\ response.status \in {200, 500} => (summaryAt # -1 /\ calls = urls)

\* a three-URL batch with a failure between two successes was reported
C9_Witness ==
    /\ response.status = 200
    /\ Len(urls) = 3
    /\ ResultUrls = <<urls[1], urls[3]>>
    /\ ErrorUrls = <<urls[2]>>
    /\ calls = urls

\* C10: a request that fails validation is answered 400 whether or not the
\* credential is configured; 503 is answered only to a request that passed
\* validation; a 400 or 503 response means no upstream call was made.
C10_ValidationBeforeConstruction ==
    /\ (pc # "validate" /\ InputInvalid) => (response.status = 400 /\ pc = "done")
    /\ response.status = 503 => (~InputInvalid /\ urls # <<>>)
    /\ response.status \in {400, 503} => (calls = <<>> /\ received = <<>>)

\* an invalid request was answered 400 although the credential is absent too
C10_Witness ==
    /\ CredentialAbsent
    /\ response.status = 400
    /\ Len(requestUrls) >= 1

\* the part of s between its first and its last character that is no whitespace
C6_Trimmed(s) ==
    LET solid == {i \in 1..Len(s) : s[i] \notin Whitespace}
    IN  IF solid = {} THEN <<>> ELSE SubSeq(s, SetMin(solid), SetMax(solid))

\* the normalization as the claim states it, the scheme prefix compared as
\* written or in lower case
C6_Claimed(s, ignoreCase) ==
    LET trimmed == C6_Trimmed(s)
        probe == IF ignoreCase THEN Lower(trimmed) ELSE trimmed
    IN  IF StartsWith(probe, SchemeHttp) \/ StartsWith(probe, SchemeHttps)
        THEN trimmed
        ELSE IF StartsWith(trimmed, <<"/", "/">>)
             THEN <<"h", "t", "t", "p", "s", ":">> \o trimmed
             ELSE SchemeHttps \o trimmed

\* C6 as stated: every raw entry the field converts becomes its trimmed string
\* if that begins with http:// or https://, "https:" + trimmed if it begins
\* with //, "https://" + trimmed otherwise; every validated URL begins with
\* http:// or https://.
C6_NormalizationAsWritten ==
    JustValidated =>
        /\ \A i \in 1..Len(fieldValues) :
              fieldValues[i].called =>
                  fieldValues[i].value = C6_Claimed(requestUrls[i], FALSE)
        /\ \A u \in Range(urls) : StartsWith(u, SchemeHttp) \/ StartsWith(u, SchemeHttps)

\* C6 amended: the same with the scheme prefix compared without regard to
\* case, so that an entry written HTTP://... is left unchanged; "a.io" and
\* "//a.io" become "https://a.io" and "https://a.io" is unchanged.
C6_NormalizationIgnoresCase ==
    JustValidated =>
        /\ \A i \in 1..Len(fieldValues) :
              /\ fieldValues[i].called =>
                     fieldValues[i].value = C6_Claimed(requestUrls[i], TRUE)
              /\ requestUrls[i] \in {Host(1), <<"/", "/">> \o Host(1), SchemeHttps \o Host(1)} =>
                     fieldValues[i].value = SchemeHttps \o Host(1)
        /\ \A u \in Range(urls) :
              StartsWith(Lower(u), SchemeHttp) \/ StartsWith(Lower(u), SchemeHttps)

\* a // entry was completed and an upper-case scheme was left as written
C6_Witness ==
    /\ pc = "construct"
    /\ requestUrls = << <<"/", "/">> \o Host(1), <<"H", "T", "T", "P", ":", "/", "/">> \o Host(2) >>
    /\ urls = << SchemeHttps \o Host(1), <<"H", "T", "T", "P", ":", "/", "/">> \o Host(2) >>

\* the sum of f over the finite set S
RECURSIVE C4_Sum(_, _)
C4_Sum(f, S) ==
    IF S = {} THEN 0 ELSE LET x == CHOOSE y \in S : TRUE IN f[x] + C4_Sum(f, S \ {x})

\* summary entry s holds the statistics of the p75 values of the results in
\* `from` for metric m: their number, minimum, maximum and their mean to the
\* nearest hundredth (floats are held in hundredths); all 0 when there is none
C4_StatsOf(s, m, from) ==
    LET value == [j \in from |-> PyFloat(results[j].metrics[m].p75).val]
        total == C4_Sum(value, from)
        n == Cardinality(from)
        diff == n * s.avg - total
    IN  /\ s.count = n
        /\ n = 0 => (s.avg = 0 /\ s.min = 0 /\ s.max = 0)
        /\ n > 0 =>
              /\ s.min = SetMin({value[j] : j \in from})
              /\ s.max = SetMax({value[j] : j \in from})
              /\ 2 * diff <= n /\ -2 * diff <= n

\* C4 as stated: the statistics of each metric are those of the samples whose
\* status is "available".
C4_StatsOfAvailableSamples ==
    response.status = 200 =>
        \A m \in Range(Metrics) :
            C4_StatsOf(response.summary[m], m,
                       {j \in 1..Len(results) : results[j].metrics[m].status = "available"})

\* C4 amended: the statistics of each metric are those of the samples whose
\* p75 is not null; p75 values 1000, 2000, 3000 give avg 2000.0, min 1000,
\* max 3000, count 3.
C4_StatsOfNonNullP75 ==
    response.status = 200 =>
        /\ \A m \in Range(Metrics) :
              C4_StatsOf(response.summary[m], m,
                         {j \in 1..Len(results) : results[j].metrics[m].p75 # Null})
        /\ [j \in 1..Len(results) |-> results[j].metrics["lcp"].p75]
               = <<Num(1000), Num(2000), Num(3000)>> =>
                  response.summary["lcp"] =
                      [avg |-> 200000, min |-> 100000, max |-> 300000, count |-> 3]

\* an available sample without p75 was left out of a summary of two values
C4_Witness ==
    /\ response.status = 200
    /\ Len(results) = 3
    /\ \E j \in 1..Len(results) :
          /\ results[j].metrics["lcp"].status = "available"
          /\ results[j].metrics["lcp"].p75 = Null
    /\ response.summary["lcp"].count = 2
    /\ response.summary["lcp"].min < response.summary["lcp"].max

\* what the upstream body holds for metric m (Absent: nothing)
C7_RawMetric(body, m) ==
    LET record == IF "record" \in DOMAIN body.v THEN body.v["record"] ELSE EmptyObj
        metrics == IF "metrics" \in DOMAIN record.v THEN record.v["metrics"] ELSE EmptyObj
    IN  IF UpstreamKey(m) \in DOMAIN metrics.v THEN metrics.v[UpstreamKey(m)] ELSE Absent

C7_NoPercentileData(body, m) ==
    LET x == C7_RawMetric(body, m)
    IN  \/ x = Absent
        \/ x = Null
        \/ /\ x.t = "obj"
           /\ \/ "percentiles" \notin DOMAIN x.v
              \/ x.v["percentiles"] = Null
              \/ x.v["percentiles"] = EmptyObj

\* the body the upstream sent for the j-th result
C7_BodyOf(j) == received[FirstIndex(calls, results[j].url)].data

\* C7: a sample is "unavailable" exactly when the upstream body holds no
\* percentile data for the metric, whatever else the metric holds; an
\* unavailable sample has p75, p90 and p99 null; taking the results with an
\* unavailable sample away leaves the summary of the metric as it is.
C7_UnavailableIffNoPercentiles ==
    /\ \A j \in 1..Len(results) : \A m \in Range(Metrics) :
          LET sample == results[j].metrics[m]
          IN  /\ sample.status \in {"available", "unavailable"}
              /\ (sample.status = "unavailable") = C7_NoPercentileData(C7_BodyOf(j), m)
              /\ sample.status = "unavailable" =>
                    (sample.p75 = Null /\ sample.p90 = Null /\ sample.p99 = Null)
    /\ response.status = 200 =>
          \A m \in Range(Metrics) :
              LET Available(r) == r.metrics[m].status = "available"
                  kept == _generate_summary(SelectSeq(results, Available))
              IN  kept.ok /\ kept.val[m] = response.summary[m]

\* a metric with a distribution and no percentiles was reported unavailable
\* beside an available one that alone made the summary
C7_Witness ==
    /\ response.status = 200
    /\ \E j, k \in 1..Len(results) :
          /\ C7_RawMetric(C7_BodyOf(j), "lcp") = Obj([distribution |-> Dist])
          /\ results[j].metrics["lcp"].status = "unavailable"
          /\ results[k].metrics["lcp"].status = "available"
    /\ response.summary["lcp"].count = 1

C8_Permuted(rs, f) == [i \in 1..Len(rs) |-> rs[f[i]]]

=============================================================================
